---- MODULE Spec2Model ----
(***************************************************************************)
(* Model of the notebook diff viewer: session navigation and the main()    *)
(* script run (src/app.py), starter matching (src/starter_notebooks.py),   *)
(* diff rendering (src/app.py) and the rubric check                        *)
(* (src/rubric_analysis.py).                                               *)
(*                                                                         *)
(* Text is a sequence of one-character strings; file and directory names   *)
(* are sequences of naturals compared lexicographically, as Python         *)
(* compares str.                                                           *)
(***************************************************************************)
EXTENDS Integers, Sequences, FiniteSets, TLC

VARIABLES
    submissions,          \* SUBMISSIONS_DIR: assignment dir name -> set of file stems
    starters,             \* STARTERS_DIR: set of starter notebook stems
    selected_assignment,  \* st.session_state["selected_assignment"]
    selected_student,     \* st.session_state["selected_student"]
    pc,                   \* "idle", or "choosing" inside navigate_student's while loop
    view,                 \* what the last run of main() left on the page
    last,                 \* the last navigation handler: kind, direction, selection before
    notebook_quarto,      \* find_closest_starter: the submission text
    versions,             \* find_closest_starter: starter -> revision -> text
    match,                \* find_closest_starter: the StarterMatch returned
    submission_nb,        \* find_matching_starter: the submission's cell sources
    starter_nbs,          \* find_matching_starter: each starter's cell sources
    best,                 \* find_matching_starter: (best_match, best_score)
    a, b,                 \* generate_*_diff_html arguments
    rows,                 \* generate_diff_html: rows of (left, right) pane cells
    html_out,             \* generate_unified_diff_html: the divs appended
    response,             \* do_rubric_check: the model response
    ui,                   \* do_rubric_check: streamlit calls made, in order
    n_calls,              \* do_rubric_check: calls to generate_content
    outcome               \* do_rubric_check: how the invocation ended

vars == <<submissions, starters, selected_assignment, selected_student, pc, view,
          last, notebook_quarto, versions, match, submission_nb, starter_nbs,
          best, a, b, rows, html_out,
          response, ui, n_calls, outcome>>

appVars    == <<submissions, starters, selected_assignment, selected_student, pc,
                view, last>>
matchVars  == <<notebook_quarto, versions, match, submission_nb, starter_nbs, best>>
diffVars   == <<a, b, rows, html_out>>
rubricVars == <<response, ui, n_calls, outcome>>

\* ---------------------------------------------------------------- bounds
MaxAssignments == 2
MaxStudents == 3
MaxLen == 2          \* characters in a Quarto text
MaxCandidates == 2   \* starters, and revisions of all starters together
MaxCells == 2        \* cells in a notebook
MaxText == 3         \* characters in a text given to the diff renderers
MaxItems == 2        \* rubric items in a model response
MaxIssues == 1       \* possible issues in a model response

\* ---------------------------------------------------------------- helpers
Min(x, y) == IF x <= y THEN x ELSE y
Max(x, y) == IF x >= y THEN x ELSE y

\* Python's str ordering: lexicographic, a proper prefix sorts first.
RECURSIVE LexLess(_, _)
LexLess(s, t) ==
    IF t = <<>> THEN FALSE
    ELSE IF s = <<>> THEN TRUE
    ELSE IF Head(s) /= Head(t) THEN Head(s) < Head(t)
    ELSE LexLess(Tail(s), Tail(t))

\* sorted(S) for a set of names
RECURSIVE sorted(_)
sorted(S) ==
    IF S = {} THEN <<>>
    ELSE LET m == CHOOSE x \in S : \A y \in S : y = x \/ LexLess(x, y)
         IN <<m>> \o sorted(S \ {m})

\* list.index(x): the first position of x, 0-based
index(list, x) == (CHOOSE i \in 1..Len(list) :
                       list[i] = x /\ \A k \in 1..(i - 1) : list[k] /= x) - 1

\* list[i] with a 0-based index
at(list, i) == list[i + 1]

Range(list) == { list[i] : i \in 1..Len(list) }

\* str.startswith
startswith(s, p) == Len(p) <= Len(s) /\ SubSeq(s, 1, Len(p)) = p

\* ---------------------------------------------------------------- file system
\* What the data directory may hold: assignments 1..n, students 1..m.
AssignmentDirs(n) == { <<i>> : i \in 1..n }
Students(m) == { <<k>> : k \in 1..m }

\* the notebooks of one assignment directory in a class of m students: all
\* of them or all but one, and at least one (utils/ingest_submissions.py
\* creates a directory only for a zip that holds notebooks)
Turnouts(m) == { S \in SUBSET Students(m) : S /= {} /\ Cardinality(S) >= m - 1 }

AssignmentNames == AssignmentDirs(MaxAssignments)
StudentNames == Students(MaxStudents)
\* starters that may be present: the first assignment's, under its own name
\* (as utils/find_starters.py copies it) and under a suffixed name; the other
\* assignments have none
StarterStems == { <<1>>, <<1, 0>> }

\* get_assignments(): the sorted directory names under SUBMISSIONS_DIR
get_assignments == sorted(DOMAIN submissions)

\* get_students(): everyone who submitted any assignment, sorted
get_students == sorted(UNION { submissions[d] : d \in DOMAIN submissions })

\* STARTERS_DIR.glob(f"{assignment}*.ipynb")
starter_paths(assignment) == { s \in starters : startswith(s, assignment) }

submission_exists(student, assignment) ==
    assignment \in DOMAIN submissions /\ student \in submissions[assignment]

\* ---------------------------------------------------------------- main()
ErrSubmission == "Submission not found"
ErrStarter == "No starter notebook found"

\* get_submission_and_starter: an error dict with one key, or a pair of notebooks
get_submission_and_starter(student, assignment) ==
    IF ~submission_exists(student, assignment)
    THEN [kind |-> "dict", error |-> ErrSubmission]
    ELSE IF starter_paths(assignment) = {}
    THEN [kind |-> "dict", error |-> ErrStarter]
    ELSE [kind |-> "tuple", error |-> ""]

\* `submission, starter = ...`: a pair unpacks; a one-key dict raises
\* ValueError (not enough values to unpack), which nothing in main() catches.
UnpackPair(result) ==
    IF result.kind = "tuple" THEN "ok" ELSE "ValueError"

\* main() from the call of get_submission_and_starter to components.html
main(student, assignment) ==
    LET result == get_submission_and_starter(student, assignment)
    IN IF UnpackPair(result) = "ok"
       THEN [state |-> "diff", error |-> ""]
       ELSE [state |-> "exception", error |-> UnpackPair(result)]

\* ---------------------------------------------------------------- navigation
Directions == {"prev", "next", "random"}

\* an index that stops at the ends of the list instead of wrapping
assignment_new_idx_clamped(direction, current_idx, n) ==
    IF direction = "prev" THEN Max(current_idx - 1, 0) ELSE Min(current_idx + 1, n - 1)

\* navigate_assignment, the prev/next branch: the new index
assignment_new_idx(direction, current_idx, n) ==
    IF direction = "prev" THEN (current_idx - 1) % n ELSE (current_idx + 1) % n

\* navigate_student, the prev/next branch: the new index
student_new_idx(direction, current_idx, n) ==
    IF direction = "prev" THEN (current_idx - 1) % n ELSE (current_idx + 1) % n

\* the script reruns after every widget interaction
Rerun(student, assignment) == view' = main(student, assignment)

\* the selectbox with key="selected_assignment"
SelectAssignment(x) ==
    /\ pc = "idle"
    /\ x \in Range(get_assignments)
    /\ selected_assignment' = x
    /\ last' = [kind |-> "select", direction |-> "", from |-> <<>>]
    /\ UNCHANGED <<submissions, starters, selected_student, pc>>
    /\ Rerun(selected_student, x)
    /\ UNCHANGED <<matchVars, diffVars, rubricVars>>

\* the selectbox with key="selected_student"
SelectStudent(x) ==
    /\ pc = "idle"
    /\ x \in Range(get_students)
    /\ selected_student' = x
    /\ last' = [kind |-> "select", direction |-> "", from |-> <<>>]
    /\ UNCHANGED <<submissions, starters, selected_assignment, pc>>
    /\ Rerun(x, selected_assignment)
    /\ UNCHANGED <<matchVars, diffVars, rubricVars>>

navigate_assignment(direction) ==
    LET assignments == get_assignments
        current == selected_assignment
    IN /\ pc = "idle"
       /\ current \in Range(assignments)          \* the assert
       /\ \E new_assignment \in Range(assignments) :
            /\ IF direction = "random"
               THEN TRUE                          \* random.choice(assignments)
               ELSE new_assignment =
                      at(assignments, assignment_new_idx(direction,
                             index(assignments, current), Len(assignments)))
            /\ selected_assignment' = new_assignment
            /\ Rerun(selected_student, new_assignment)
       /\ last' = [kind |-> "assignment", direction |-> direction, from |-> current]
       /\ UNCHANGED <<submissions, starters, selected_student, pc>>
       /\ UNCHANGED <<matchVars, diffVars, rubricVars>>

\* navigate_student up to the assignment of new_student, or up to the while loop
navigate_student(direction) ==
    LET students == get_students
        current == selected_student
    IN /\ pc = "idle"
       /\ current \in Range(students)             \* the assert
       /\ last' = [kind |-> "student", direction |-> direction, from |-> current]
       /\ IF Len(students) < 2
          THEN UNCHANGED <<selected_student, pc>>
          ELSE IF direction = "random"
          THEN /\ pc' = "choosing"
               /\ UNCHANGED selected_student
          ELSE /\ selected_student' =
                      at(students, student_new_idx(direction,
                             index(students, current), Len(students)))
               /\ UNCHANGED pc
       /\ UNCHANGED <<submissions, starters, selected_assignment>>
       /\ Rerun(selected_student', selected_assignment)
       /\ UNCHANGED <<matchVars, diffVars, rubricVars>>

\* a loop that accepts whatever is drawn first
student_loop_never(new_student, current) == FALSE

\* the loop test of `while (new_student := random.choice(students)) == current`
student_loop_again(new_student, current) == new_student = current

\* one iteration of the while loop, and the store that follows its exit
random_choice_student ==
    /\ pc = "choosing"
    /\ \E new_student \in Range(get_students) :
         IF student_loop_again(new_student, selected_student)
         THEN UNCHANGED <<selected_student, pc, view>>
         ELSE /\ selected_student' = new_student
              /\ pc' = "idle"
              /\ Rerun(new_student, selected_assignment)
    /\ UNCHANGED <<submissions, starters, selected_assignment, last>>
    /\ UNCHANGED <<matchVars, diffVars, rubricVars>>

\* ---------------------------------------------------------------- difflib
\* SequenceMatcher(None, x, y) without junk; positions are 0-based and ranges
\* half-open as in Python, x[i] is written x[i + 1].

\* the length of the common run of x from i and y from j inside the ranges
RECURSIVE run_length(_, _, _, _, _, _)
run_length(x, y, i, j, ahi, bhi) ==
    IF i < ahi /\ j < bhi /\ x[i + 1] = y[j + 1]
    THEN 1 + run_length(x, y, i + 1, j + 1, ahi, bhi)
    ELSE 0

\* find_longest_match: the longest block x[i:i+k] = y[j:j+k] inside
\* x[alo:ahi], y[blo:bhi]; of the longest, the one that starts earliest in x
\* and, of those, earliest in y; <<alo, blo, 0>> when nothing matches
find_longest_match(x, y, alo, ahi, blo, bhi) ==
    LET cands == { <<p[1], p[2], run_length(x, y, p[1], p[2], ahi, bhi)>> :
                     p \in (alo..(ahi - 1)) \X (blo..(bhi - 1)) }
        longest == { m \in cands : m[3] > 0 /\ \A o \in cands : o[3] <= m[3] }
        earliest == { m \in longest : \A o \in longest : m[1] <= o[1] }
    IN IF longest = {} THEN <<alo, blo, 0>>
       ELSE CHOOSE m \in earliest : \A o \in earliest : m[2] <= o[2]

\* the blocks found by get_matching_blocks' queue, sorted
RECURSIVE matching_blocks(_, _, _, _, _, _)
matching_blocks(x, y, alo, ahi, blo, bhi) ==
    LET m == find_longest_match(x, y, alo, ahi, blo, bhi)
        i == m[1]
        j == m[2]
        k == m[3]
    IN IF k = 0 THEN <<>>
       ELSE (IF alo < i /\ blo < j
             THEN matching_blocks(x, y, alo, i, blo, j) ELSE <<>>)
            \o <<m>>
            \o (IF i + k < ahi /\ j + k < bhi
                THEN matching_blocks(x, y, i + k, ahi, j + k, bhi) ELSE <<>>)

\* get_matching_blocks collapses adjacent blocks: acc is the list so far,
\* cur the pending block
RECURSIVE collapse(_, _, _)
collapse(blocks, cur, acc) ==
    IF blocks = <<>>
    THEN IF cur[3] > 0 THEN Append(acc, cur) ELSE acc
    ELSE LET nxt == Head(blocks)
         IN IF cur[1] + cur[3] = nxt[1] /\ cur[2] + cur[3] = nxt[2]
            THEN collapse(Tail(blocks), <<cur[1], cur[2], cur[3] + nxt[3]>>, acc)
            ELSE collapse(Tail(blocks), nxt,
                          IF cur[3] > 0 THEN Append(acc, cur) ELSE acc)

\* get_matching_blocks(): the collapsed blocks and the sentinel
get_matching_blocks(x, y) ==
    Append(collapse(matching_blocks(x, y, 0, Len(x), 0, Len(y)), <<0, 0, 0>>, <<>>),
           <<Len(x), Len(y), 0>>)

RECURSIVE SumSizes(_)
SumSizes(blocks) ==
    IF blocks = <<>> THEN 0 ELSE Head(blocks)[3] + SumSizes(Tail(blocks))

\* A ratio is the fraction num/den with den > 0, never reduced; -1.0 is -1/1
\* and float('inf') is 1/0.
RatioLess(r, q) == r.num * q.den < q.num * r.den
RatioLeq(r, q) == r.num * q.den <= q.num * r.den

\* _calculate_ratio(matches, length)
calculate_ratio(matches, length) ==
    IF length > 0 THEN [num |-> 2 * matches, den |-> length]
    ELSE [num |-> 1, den |-> 1]

\* SequenceMatcher.ratio()
ratio(x, y) == calculate_ratio(SumSizes(get_matching_blocks(x, y)), Len(x) + Len(y))

\* an upper bound that forgets the factor 2
real_quick_ratio_halved(x, y) ==
    [num |-> Min(Len(x), Len(y)), den |-> Max(1, Len(x) + Len(y))]

\* SequenceMatcher.real_quick_ratio()
real_quick_ratio(x, y) == calculate_ratio(Min(Len(x), Len(y)), Len(x) + Len(y))

\* ---------------------------------------------------------------- find_closest_starter
\* versions.items() and rev_map.items() in iteration order: starters and
\* revisions are numbered by their position
RECURSIVE Candidates(_, _)
Candidates(vs, name) ==
    IF name > Len(vs) THEN <<>>
    ELSE [rev \in 1..Len(vs[name]) |->
             [starter |-> name, revision |-> rev, text |-> vs[name][rev]]]
         \o Candidates(vs, name + 1)

NoMatch == [starter |-> 0, revision |-> 0, num |-> -1, den |-> 1]

\* the early abort: real_quick_ratio() <= best_ratio
skip_quick(quick, best_ratio) == RatioLeq(quick, best_ratio)

\* the second test: ratio <= best_ratio
skip_ratio(r, best_ratio) == RatioLeq(r, best_ratio)

\* the loop body for the candidates cs, with the best match so far
RECURSIVE closest_loop(_, _, _)
closest_loop(nb, cs, bst) ==
    IF cs = <<>> THEN bst
    ELSE LET c == Head(cs)
             r == ratio(nb, c.text)
         IN IF skip_quick(real_quick_ratio(nb, c.text), bst)
            THEN closest_loop(nb, Tail(cs), bst)
            ELSE IF skip_ratio(r, bst)
            THEN closest_loop(nb, Tail(cs), bst)
            ELSE closest_loop(nb, Tail(cs),
                     [starter |-> c.starter, revision |-> c.revision,
                      num |-> r.num, den |-> r.den])

\* find_closest_starter: the best match, or NoMatch where the assert fails
closest_starter(nb, vs) == closest_loop(nb, Candidates(vs, 1), NoMatch)

\* ---------------------------------------------------------------- find_matching_starter
\* '\n'.join(cell.get('source', '') for cell in nb.cells)
RECURSIVE join_sources(_)
join_sources(cells) ==
    IF cells = <<>> THEN <<>>
    ELSE IF Len(cells) = 1 THEN Head(cells)
    ELSE Head(cells) \o <<"\n">> \o join_sources(Tail(cells))

\* the difference taken the wrong way round: similarity - 1
compute_diff_score_negated(submission, starter) ==
    LET similarity == ratio(join_sources(submission), join_sources(starter))
    IN [num |-> similarity.num - similarity.den, den |-> similarity.den]

\* compute_diff_score: 1 - similarity
compute_diff_score(submission, starter) ==
    LET similarity == ratio(join_sources(submission), join_sources(starter))
    IN [num |-> similarity.den - similarity.num, den |-> similarity.den]

Infinity == [num |-> 1, den |-> 0]
NoBest == [best_match |-> 0, num |-> Infinity.num, den |-> Infinity.den]

\* the loop over starter_paths from position p, with the best so far
RECURSIVE matching_loop(_, _, _, _)
matching_loop(submission, nbs, p, bst) ==
    IF p > Len(nbs) THEN bst
    ELSE LET score == compute_diff_score(submission, nbs[p])
         IN IF RatioLess(score, bst)
            THEN matching_loop(submission, nbs, p + 1,
                     [best_match |-> p, num |-> score.num, den |-> score.den])
            ELSE matching_loop(submission, nbs, p + 1, bst)

matching_starter(submission, nbs) == matching_loop(submission, nbs, 1, NoBest)

\* ---------------------------------------------------------------- matching runs
Chars == {"a", "b"}
SeqsUpTo(S, n) == UNION { [1..k -> S] : k \in 0..n }
Texts == SeqsUpTo(Chars, MaxLen)
Sources == { <<c>> : c \in Chars }
Notebooks == SeqsUpTo(Sources, MaxCells)

RECURSIVE SumSeq(_)
SumSeq(ns) == IF ns = <<>> THEN 0 ELSE Head(ns) + SumSeq(Tail(ns))

\* how many revisions each starter has: with two or more revisions in all,
\* either one starter has them all or every starter has one; a starter
\* without revisions is only drawn next to at most one revision
Shapes == { ns \in SeqsUpTo(0..MaxCandidates, MaxCandidates) :
              /\ SumSeq(ns) <= MaxCandidates
              /\ SumSeq(ns) >= 2 => (Len(ns) = 1 \/ \A p \in 1..Len(ns) : ns[p] = 1) }

\* the revision texts flat, in iteration order, cut into one map per starter
RECURSIVE Split(_, _)
Split(flat, shape) ==
    IF shape = <<>> THEN <<>>
    ELSE <<SubSeq(flat, 1, Head(shape))>>
         \o Split(SubSeq(flat, Head(shape) + 1, Len(flat)), Tail(shape))

\* the state of find_closest_starter before it is called
MatchStart == [state |-> "start", starter |-> NoMatch.starter,
               revision |-> NoMatch.revision, num |-> NoMatch.num, den |-> NoMatch.den]
\* the state of find_matching_starter before it is called
BestStart == [state |-> "start", best_match |-> NoBest.best_match,
              num |-> NoBest.num, den |-> NoBest.den]

\* find_closest_starter returns best, or raises where `assert best is not None` fails
find_closest_starter ==
    /\ match.state = "start"
    /\ LET bst == closest_starter(notebook_quarto, versions)
       IN match' = [state |-> IF bst.starter = 0 THEN "AssertionError" ELSE "returned",
                    starter |-> bst.starter, revision |-> bst.revision,
                    num |-> bst.num, den |-> bst.den]
    /\ UNCHANGED <<notebook_quarto, versions, submission_nb, starter_nbs, best>>
    /\ UNCHANGED <<appVars, diffVars, rubricVars>>

\* find_matching_starter returns (best_match, best_score)
find_matching_starter ==
    /\ best.state = "start"
    /\ LET bst == matching_starter(submission_nb, starter_nbs)
       IN best' = [state |-> "returned", best_match |-> bst.best_match,
                   num |-> bst.num, den |-> bst.den]
    /\ UNCHANGED <<notebook_quarto, versions, match, submission_nb, starter_nbs>>
    /\ UNCHANGED <<appVars, diffVars, rubricVars>>

\* ---------------------------------------------------------------- str methods
NL == "\n"

\* the position of the first NL in text, 0 when there is none
FirstNL(text) ==
    IF \E p \in 1..Len(text) : text[p] = NL
    THEN CHOOSE p \in 1..Len(text) : text[p] = NL /\ \A q \in 1..(p - 1) : text[q] /= NL
    ELSE 0

\* str.splitlines(): no line for the empty text nor after a final newline
RECURSIVE splitlines(_)
splitlines(text) ==
    IF text = <<>> THEN <<>>
    ELSE LET p == FirstNL(text)
         IN IF p = 0 THEN <<text>>
            ELSE <<SubSeq(text, 1, p - 1)>> \o splitlines(SubSeq(text, p + 1, Len(text)))

\* str.split('\n'): always at least one piece
RECURSIVE split(_)
split(text) ==
    LET p == FirstNL(text)
    IN IF p = 0 THEN <<text>>
       ELSE <<SubSeq(text, 1, p - 1)>> \o split(SubSeq(text, p + 1, Len(text)))

\* "\n".join(lines)
RECURSIVE join(_)
join(lines) ==
    IF lines = <<>> THEN <<>>
    ELSE IF Len(lines) = 1 THEN Head(lines)
    ELSE Head(lines) \o <<NL>> \o join(Tail(lines))

\* str.replace(old, new) for a one-character old
RECURSIVE replace(_, _, _)
replace(text, old, new) ==
    IF text = <<>> THEN <<>>
    ELSE (IF Head(text) = old THEN new ELSE <<Head(text)>>) \o replace(Tail(text), old, new)

\* lines[start:end]
slice(lines, start, end) == SubSeq(lines, start + 1, Min(end, Len(lines)))

\* [''] * n
blanks(n) == [k \in 1..n |-> <<>>]

Amp == <<"&", "a", "m", "p", ";">>
Lt == <<"&", "l", "t", ";">>
Gt == <<"&", "g", "t", ";">>

\* ---------------------------------------------------------------- get_opcodes
\* the loop of get_opcodes over the matching blocks, from position (i, j)
RECURSIVE opcodes_loop(_, _, _)
opcodes_loop(blocks, i, j) ==
    IF blocks = <<>> THEN <<>>
    ELSE LET ai == Head(blocks)[1]
             bj == Head(blocks)[2]
             size == Head(blocks)[3]
             tag == IF i < ai /\ j < bj THEN "replace"
                    ELSE IF i < ai THEN "delete"
                    ELSE IF j < bj THEN "insert"
                    ELSE ""
         IN (IF tag /= "" THEN << <<tag, i, ai, j, bj>> >> ELSE <<>>)
            \o (IF size > 0 THEN << <<"equal", ai, ai + size, bj, bj + size>> >> ELSE <<>>)
            \o opcodes_loop(Tail(blocks), ai + size, bj + size)

\* SequenceMatcher(None, x, y).get_opcodes()
get_opcodes(x, y) == opcodes_loop(get_matching_blocks(x, y), 0, 0)

\* ---------------------------------------------------------------- generate_diff_html
context_lines == 3

\* the escaping with '&' replaced last, so that the entities are escaped again
escape_amp_last(chunk) == replace(replace(replace(chunk, "<", Lt), ">", Gt), "&", Amp)

\* chunk.replace("&", "&amp;").replace("<", "&lt;").replace(">", "&gt;")
escape(chunk) == replace(replace(replace(chunk, "&", Amp), "<", Lt), ">", Gt)

\* format_chunk of both renderers
format_chunk(lines, start, end) ==
    IF slice(lines, start, end) = <<>> THEN <<>>
    ELSE escape(join(slice(lines, start, end)))

\* A pane cell is the empty string (cls "none", no line) or a div of class
\* cls holding one 'line' div per entry of lines.
EmptyCell == [cls |-> "none", lines |-> <<>>]
Ellipsis == [cls |-> "ellipsis", lines |-> <<>>]

\* format_lines(lines, cls)
format_lines(lines, cls) ==
    IF lines = <<>> THEN EmptyCell
    ELSE [cls |-> cls, lines |-> split(lines)]

\* the rows appended for one opcode (the body of the for loop)
opcode_rows(a_lines, b_lines, op, last_i2, last_j2) ==
    LET tag == op[1]
        i1 == op[2]
        i2 == op[3]
        j1 == op[4]
        j2 == op[5]
        i_start == Max(i1 - context_lines, last_i2)
        j_start == Max(j1 - context_lines, last_j2)
        context_left == format_chunk(a_lines, i_start, i1)
        context_right == format_chunk(b_lines, j_start, j1)
        left_chunk == format_chunk(a_lines, i1, i2)
        right_chunk == format_chunk(b_lines, j1, j2)
        max_lines == Max(Len(split(left_chunk)), Len(split(right_chunk)))
        left_lines == split(left_chunk) \o blanks(max_lines - Len(split(left_chunk)))
        right_lines == split(right_chunk) \o blanks(max_lines - Len(split(right_chunk)))
    IN (IF i_start > last_i2 \/ j_start > last_j2
        THEN << <<Ellipsis, Ellipsis>> >> ELSE <<>>)
       \o (IF context_left /= <<>> \/ context_right /= <<>>
           THEN << <<format_lines(context_left, ""), format_lines(context_right, "")>> >>
           ELSE <<>>)
       \o (IF tag = "replace"
           THEN << <<format_lines(join(left_lines), "diff-delete"),
                     format_lines(join(right_lines), "diff-insert")>> >>
           ELSE IF tag = "delete"
           THEN << <<format_lines(left_chunk, "diff-delete"),
                     format_lines(join(blanks(Len(split(left_chunk)))), "")>> >>
           ELSE IF tag = "insert"
           THEN << <<format_lines(join(blanks(Len(split(right_chunk)))), ""),
                     format_lines(right_chunk, "diff-insert")>> >>
           ELSE << <<format_lines(left_chunk, ""), format_lines(right_chunk, "")>> >>)

\* the for loop over the opcodes, carrying last_i2 and last_j2
RECURSIVE diff_rows(_, _, _, _, _)
diff_rows(a_lines, b_lines, ops, last_i2, last_j2) ==
    IF ops = <<>> THEN <<>>
    ELSE opcode_rows(a_lines, b_lines, Head(ops), last_i2, last_j2)
         \o diff_rows(a_lines, b_lines, Tail(ops), Head(ops)[3], Head(ops)[5])

\* generate_diff_html(a, b): the rows; the left pane is the first cell of
\* every row, the right pane the second
diff_html(x, y) == diff_rows(splitlines(x), splitlines(y),
                             get_opcodes(splitlines(x), splitlines(y)), 0, 0)

\* ---------------------------------------------------------------- generate_unified_diff_html
\* the divs appended to html_out for one opcode; side tells which text a
\* div's chunk was taken from
unified_divs(a_lines, b_lines, op) ==
    LET tag == op[1]
    IN IF tag = "equal"
       THEN << [cls |-> "equal", side |-> "a", text |-> format_chunk(a_lines, op[2], op[3])] >>
       ELSE (IF tag \in {"replace", "delete"}
             THEN << [cls |-> "delete", side |-> "a",
                      text |-> format_chunk(a_lines, op[2], op[3])] >>
             ELSE <<>>)
            \o (IF tag \in {"replace", "insert"}
                THEN << [cls |-> "insert", side |-> "b",
                         text |-> format_chunk(b_lines, op[4], op[5])] >>
                ELSE <<>>)

RECURSIVE unified_loop(_, _, _)
unified_loop(a_lines, b_lines, ops) ==
    IF ops = <<>> THEN <<>>
    ELSE unified_divs(a_lines, b_lines, Head(ops))
         \o unified_loop(a_lines, b_lines, Tail(ops))

\* generate_unified_diff_html(a, b): html_out
unified_diff_html(x, y) == unified_loop(splitlines(x), splitlines(y),
                                        get_opcodes(splitlines(x), splitlines(y)))

\* ---------------------------------------------------------------- rendering runs
DiffChars == {"&", "<", ">", NL}
DiffTexts == SeqsUpTo(DiffChars, MaxText)

\* main() with the Unified Diff View box unchecked
generate_diff_html ==
    /\ rows.state = "start" /\ html_out.state = "start"
    /\ rows' = [state |-> "returned", rows |-> diff_html(a, b)]
    /\ UNCHANGED <<a, b, html_out>>
    /\ UNCHANGED <<appVars, matchVars, rubricVars>>

\* main() with the Unified Diff View box checked
generate_unified_diff_html ==
    /\ rows.state = "start" /\ html_out.state = "start"
    /\ html_out' = [state |-> "returned", divs |-> unified_diff_html(a, b)]
    /\ UNCHANGED <<a, b, rows>>
    /\ UNCHANGED <<appVars, matchVars, rubricVars>>

\* ---------------------------------------------------------------- do_rubric_check
\* What the try block meets: response.text is None, model_validate_json
\* raises json.JSONDecodeError, it raises another exception (pydantic's
\* ValidationError), or it returns a RubricResponse.
ResponseKinds == {"text is None", "JSONDecodeError", "ValidationError", "valid"}

Statuses == {"pass", "not yet", "not applicable"}
\* RubricItemResponse, the comment reduced to whether it is empty
RubricItemResponses == [status : Statuses, comment : BOOLEAN]
\* RubricResponse, possible_issues reduced to its length and other_comments
\* to whether it is empty
RubricResponses == [kind : {"valid"},
                    item_responses : SeqsUpTo(RubricItemResponses, MaxItems),
                    possible_issues : 0..MaxIssues,
                    other_comments : BOOLEAN]
NoRubric == [item_responses |-> <<>>, possible_issues |-> 0, other_comments |-> FALSE]
Malformed(kind) == [kind |-> kind, item_responses |-> NoRubric.item_responses,
                    possible_issues |-> NoRubric.possible_issues,
                    other_comments |-> NoRubric.other_comments]

\* the except clause that handles what the try block raised
except_branch(kind) ==
    IF kind = "valid" THEN "none"
    ELSE IF kind = "JSONDecodeError" THEN "json.JSONDecodeError"
    ELSE "Exception"          \* ValueError("Response is None") and the rest

status_to_emoji(status) ==
    IF status = "pass" THEN "check"
    ELSE IF status = "not yet" THEN "cross"
    ELSE "hourglass"

\* the markdown built from rubric_check, one entry per line written
RECURSIVE item_lines(_)
item_lines(items) ==
    IF items = <<>> THEN <<>>
    ELSE << <<"item", status_to_emoji(Head(items).status)>> >>
         \o (IF Head(items).comment THEN << <<"comment", "">> >> ELSE <<>>)
         \o item_lines(Tail(items))

rubric_markdown(rubric_check) ==
    item_lines(rubric_check.item_responses)
    \o (IF rubric_check.possible_issues > 0
        THEN << <<"heading", "Possible Issues">> >>
             \o [k \in 1..rubric_check.possible_issues |-> <<"issue", "">>]
        ELSE <<>>)
    \o (IF rubric_check.other_comments
        THEN << <<"heading", "Other Comments">>, <<"other_comments", "">> >>
        ELSE <<>>)

\* do_rubric_check: one call of generate_content, the try block, and what
\* follows it. The json.JSONDecodeError clause has no return, so control
\* reaches the loop over rubric_check.item_responses with rubric_check unbound.
do_rubric_check ==
    /\ outcome = "not run"
    /\ n_calls' = n_calls + 1
    /\ LET branch == except_branch(response.kind)
       IN IF branch = "Exception"
          THEN /\ ui' = << <<"error">>, <<"write">>, <<"code">> >>
               /\ outcome' = "returned"
          ELSE IF branch = "json.JSONDecodeError"
          THEN /\ ui' = << <<"error">> >>
               /\ outcome' = "UnboundLocalError"
          ELSE /\ ui' = << <<"markdown", rubric_markdown(response)>> >>
               /\ outcome' = "returned"
    /\ UNCHANGED response
    /\ UNCHANGED <<appVars, matchVars, diffVars>>

\* ---------------------------------------------------------------- idle values
MatchIdle == /\ notebook_quarto = <<>> /\ versions = <<>>
             /\ match = [MatchStart EXCEPT !.state = "not called"]
             /\ submission_nb = <<>> /\ starter_nbs = <<>>
             /\ best = [BestStart EXCEPT !.state = "not called"]
DiffIdle == /\ a = <<>> /\ b = <<>>
            /\ rows = [state |-> "start", rows |-> <<>>]
            /\ html_out = [state |-> "start", divs |-> <<>>]
RubricIdle == /\ response = Malformed("text is None") /\ ui = <<>> /\ n_calls = 0
              /\ outcome = "not run"
AppIdle ==
    /\ submissions = [d \in {<<1>>} |-> {<<1>>}]
    /\ starters = {}
    /\ selected_assignment = <<1>>
    /\ selected_student = <<1>>
    /\ pc = "idle"
    /\ view = [state |-> "none", error |-> ""]
    /\ last = [kind |-> "load", direction |-> "", from |-> <<>>]

\* ---------------------------------------------------------------- the viewer
\* the state after the first run of main(): both selectboxes on their first
\* option
Loaded ==
    /\ starters \in SUBSET StarterStems
    /\ selected_assignment = at(get_assignments, 0)
    /\ selected_student = at(get_students, 0)
    /\ pc = "idle"
    /\ view = main(selected_student, selected_assignment)
    /\ last = [kind |-> "load", direction |-> "", from |-> <<>>]
    /\ MatchIdle /\ DiffIdle /\ RubricIdle

Init ==
    /\ \E n \in 1..MaxAssignments : \E m \in 1..MaxStudents :
         submissions \in [AssignmentDirs(n) -> Turnouts(m)]
    /\ Loaded

\* every student handed in every assignment
InitFair ==
    /\ \E n \in 1..MaxAssignments : \E m \in 1..MaxStudents :
         submissions = [d \in AssignmentDirs(n) |-> Students(m)]
    /\ Loaded

Next ==
    \/ \E x \in AssignmentNames : SelectAssignment(x)
    \/ \E x \in StudentNames : SelectStudent(x)
    \/ \E direction \in Directions : navigate_assignment(direction)
    \/ \E direction \in Directions : navigate_student(direction)
    \/ random_choice_student

Spec == Init /\ [][Next]_vars

\* random.choice is fair: the loop does not draw the current student forever.
\* Navigation reads only the two sorted lists, so the fair specification
\* starts from the directories in which no notebook is missing.
FairSpec == InitFair /\ [][Next]_vars /\ WF_vars(random_choice_student)

\* ---------------------------------------------------------------- claim C1
\* C1: when the selected student's submission is missing, or no starter
\* matches the selected assignment, the run of main() ends showing the error
\* returned by get_submission_and_starter, not an unhandled exception.
C1_ErrorSurfaced ==
    /\ ~submission_exists(selected_student, selected_assignment)
          => view = [state |-> "error", error |-> ErrSubmission]
    /\ (submission_exists(selected_student, selected_assignment)
          /\ starter_paths(selected_assignment) = {})
          => view = [state |-> "error", error |-> ErrStarter]

\* ---------------------------------------------------------------- claims C5, C6
\* the element after x in the sorted order of S, wrapping to the smallest
CyclicSucc(S, x) ==
    LET above == { y \in S : LexLess(x, y) }
    IN IF above = {}
       THEN CHOOSE m \in S : \A y \in S : y = m \/ LexLess(m, y)
       ELSE CHOOSE m \in above : \A y \in above : y = m \/ LexLess(m, y)

\* the element before x in the sorted order of S, wrapping to the largest
CyclicPred(S, x) ==
    LET below == { y \in S : LexLess(y, x) }
    IN IF below = {}
       THEN CHOOSE m \in S : \A y \in S : y = m \/ LexLess(y, m)
       ELSE CHOOSE m \in below : \A y \in below : y = m \/ LexLess(y, m)

AssignmentSet == DOMAIN submissions
StudentSet == UNION { submissions[d] : d \in DOMAIN submissions }

SelectionValid ==
    /\ selected_assignment \in AssignmentSet
    /\ selected_student \in StudentSet

NavigatedCyclically ==
    /\ (last.kind = "assignment" /\ last.direction = "next")
          => selected_assignment = CyclicSucc(AssignmentSet, last.from)
    /\ (last.kind = "assignment" /\ last.direction = "prev")
          => selected_assignment = CyclicPred(AssignmentSet, last.from)
    /\ (last.kind = "student" /\ last.direction = "next")
          => selected_student = CyclicSucc(StudentSet, last.from)
    /\ (last.kind = "student" /\ last.direction = "prev")
          => selected_student = CyclicPred(StudentSet, last.from)

\* a prev handler right after a next handler of the same list, or the reverse
Opposite(d1, d2) == {d1, d2} = {"prev", "next"}

RoundTrip ==
    /\ (last.kind = "assignment" /\ last'.kind = "assignment"
           /\ Opposite(last.direction, last'.direction))
          => selected_assignment' = last.from
    /\ (last.kind = "student" /\ last'.kind = "student"
           /\ Opposite(last.direction, last'.direction))
          => selected_student' = last.from

\* C5: prev/next select the cyclic predecessor/successor in the sorted list,
\* the selection always stays a member of its list (the entry assert holds),
\* and next-then-prev or prev-then-next restores the original selection.
C5_CyclicNavigation ==
    /\ [](SelectionValid /\ NavigatedCyclically)
    /\ [][RoundTrip]_vars

\* C5 witness: a next on the last assignment wrapped round to the first one,
\* with more than one assignment to choose from
C5_Witness ==
    /\ last.kind = "assignment" /\ last.direction = "next"
    /\ Cardinality(AssignmentSet) >= 2
    /\ LexLess(selected_assignment, last.from)

RandomStudentDiffers ==
    (last.kind = "student" /\ last.direction = "random" /\ pc = "idle"
        /\ Cardinality(StudentSet) >= 2)
       => selected_student /= last.from

FewStudentsUnchanged ==
    (last.kind = "student" /\ Cardinality(StudentSet) < 2)
       => selected_student = last.from

SingleAssignmentUnchanged ==
    (last.kind = "assignment" /\ Cardinality(AssignmentSet) = 1)
       => selected_assignment = last.from

\* C6: the random student button ends on a different student when there are
\* two or more, and its loop terminates under fair choice; with fewer than
\* two students no direction changes the student; with one assignment no
\* direction changes the assignment.
C6_RandomNavigation ==
    /\ [](RandomStudentDiffers /\ FewStudentsUnchanged /\ SingleAssignmentUnchanged)
    /\ (pc = "choosing" ~> pc = "idle")

\* C6 witness: the random student loop has exited on another student
C6_Witness ==
    /\ last.kind = "student" /\ last.direction = "random" /\ pc = "idle"
    /\ Cardinality(StudentSet) >= 2
    /\ selected_student /= last.from

\* ---------------------------------------------------------------- the matchers
\* One call of one matcher on inputs drawn from the bounded sets.
InitMatch ==
    /\ \/ /\ notebook_quarto \in Texts
          /\ \E shape \in Shapes : \E flat \in [1..SumSeq(shape) -> Texts] :
                versions = Split(flat, shape)
          /\ match = MatchStart
          /\ submission_nb = <<>> /\ starter_nbs = <<>>
          /\ best = [BestStart EXCEPT !.state = "not called"]
       \/ /\ submission_nb \in Notebooks
          /\ starter_nbs \in SeqsUpTo(Notebooks, MaxCandidates)
          /\ best = BestStart
          /\ notebook_quarto = <<>> /\ versions = <<>>
          /\ match = [MatchStart EXCEPT !.state = "not called"]
    /\ AppIdle /\ DiffIdle /\ RubricIdle

NextMatch == find_closest_starter \/ find_matching_starter

SpecMatch == InitMatch /\ [][NextMatch]_vars

\* ---------------------------------------------------------------- the renderers
\* One rendering of a pair of texts, side by side or unified.
InitDiff ==
    /\ a \in DiffTexts
    /\ b \in DiffTexts
    /\ rows = [state |-> "start", rows |-> <<>>]
    /\ html_out = [state |-> "start", divs |-> <<>>]
    /\ AppIdle /\ MatchIdle /\ RubricIdle

NextDiff == generate_diff_html \/ generate_unified_diff_html

SpecDiff == InitDiff /\ [][NextDiff]_vars

\* ---------------------------------------------------------------- the rubric check
\* One call of do_rubric_check on a response drawn from the bounded sets.
InitRubric ==
    /\ response \in RubricResponses \cup { Malformed(k) : k \in ResponseKinds \ {"valid"} }
    /\ ui = <<>>
    /\ n_calls = 0
    /\ outcome = "not run"
    /\ AppIdle /\ MatchIdle /\ DiffIdle

NextRubric == do_rubric_check

SpecRubric == InitRubric /\ [][NextRubric]_vars

\* ---------------------------------------------------------------- claims C2, C3
AllCandidates == Candidates(versions, 1)

\* scoring every candidate in full: the first candidate, in iteration order,
\* whose ratio no other candidate exceeds
FullScoringChoice ==
    LET cs == AllCandidates
        r(p) == ratio(notebook_quarto, cs[p].text)
    IN CHOOSE p \in 1..Len(cs) :
          /\ \A q \in 1..Len(cs) : RatioLeq(r(q), r(p))
          /\ \A q \in 1..(p - 1) : RatioLess(r(q), r(p))

\* C2: the StarterMatch returned has the maximum ratio over every revision of
\* every starter, its ratio is the ratio of the (starter, revision) it names,
\* and it is the match that scoring every candidate in full returns.
C2_ClosestIsMaximum ==
    match.state = "returned" =>
       /\ \A name \in 1..Len(versions) : \A rev \in 1..Len(versions[name]) :
             RatioLeq(ratio(notebook_quarto, versions[name][rev]), match)
       /\ match.starter \in 1..Len(versions)
       /\ match.revision \in 1..Len(versions[match.starter])
       /\ LET r == ratio(notebook_quarto, versions[match.starter][match.revision])
          IN match.num = r.num /\ match.den = r.den
       /\ LET c == AllCandidates[FullScoringChoice]
          IN match.starter = c.starter /\ match.revision = c.revision

\* C2 witness: the first of two candidates won with a ratio below 1, and the
\* second was skipped on its real_quick_ratio alone
C2_Witness ==
    /\ match.state = "returned"
    /\ Len(AllCandidates) = 2
    /\ match.starter = AllCandidates[1].starter
    /\ match.revision = AllCandidates[1].revision
    /\ match.num < match.den
    /\ skip_quick(real_quick_ratio(notebook_quarto, AllCandidates[2].text), match)

InUnitInterval(r) == r.den > 0 /\ 0 <= r.num /\ r.num <= r.den

\* C3: every ratio returned by find_closest_starter and every score returned
\* by find_matching_starter for a non-empty starter list lies in [0,1]; with
\* at least one candidate the sentinels -1.0 and infinity are never returned.
C3_RatioInUnitInterval ==
    /\ match.state = "returned" => InUnitInterval(match)
    /\ (match.state \in {"returned", "AssertionError"} /\ Len(AllCandidates) > 0)
          => match.state = "returned"
    /\ (best.state = "returned" /\ starter_nbs /= <<>>)
          => InUnitInterval(best) /\ best.best_match \in 1..Len(starter_nbs)

\* C3 witness: find_matching_starter chose the second of two starters with a
\* score strictly between 0 and 1
C3_Witness ==
    /\ best.state = "returned"
    /\ Len(starter_nbs) = 2
    /\ best.best_match = 2
    /\ 0 < best.num /\ best.num < best.den

\* ---------------------------------------------------------------- claims C7, C8
\* C7: in every row of the side-by-side diff the left cell and the right cell
\* hold the same number of 'line' elements.
C7_PanesAligned ==
    \A r \in 1..Len(rows.rows) :
        Len(rows.rows[r][1].lines) = Len(rows.rows[r][2].lines)

\* one character escaped on its own
EscapeChar(c) == IF c = "&" THEN Amp
                 ELSE IF c = "<" THEN Lt
                 ELSE IF c = ">" THEN Gt
                 ELSE <<c>>

RECURSIVE EscapeLine(_)
EscapeLine(line) ==
    IF line = <<>> THEN <<>> ELSE EscapeChar(Head(line)) \o EscapeLine(Tail(line))

EscapedLinesOf(text) == { EscapeLine(l) : l \in Range(splitlines(text)) }

NoRawAngle(line) == \A p \in 1..Len(line) : line[p] \notin {"<", ">"}

\* a blank padding line, or the character-by-character escape of a line of text
CellEscaped(cell, text) ==
    \A p \in 1..Len(cell.lines) :
        /\ NoRawAngle(cell.lines[p])
        /\ cell.lines[p] = <<>> \/ cell.lines[p] \in EscapedLinesOf(text)

\* C8: every line of text in the output of either renderer is a line of the
\* starter (left, delete and equal divs) or of the submission (right, insert
\* divs) with '&', '<' and '>' each replaced once by its entity, so that no
\* raw '<' or '>' from the text is left.
C8_OutputEscaped ==
    /\ \A r \in 1..Len(rows.rows) :
          /\ CellEscaped(rows.rows[r][1], a)
          /\ CellEscaped(rows.rows[r][2], b)
    /\ \A d \in 1..Len(html_out.divs) :
          LET div == html_out.divs[d]
          IN CellEscaped([lines |-> split(div.text)],
                         IF div.side = "a" THEN a ELSE b)

\* C8 witness: a replace opcode was rendered side by side with an escaped
\* '&' on the starter side and an escaped '<' on the submission side
C8_Witness ==
    /\ rows.state = "returned"
    /\ \E r \in 1..Len(rows.rows) :
          /\ rows.rows[r][1].cls = "diff-delete"
          /\ rows.rows[r][2].cls = "diff-insert"
          /\ Amp \in Range(rows.rows[r][1].lines)
          /\ Lt \in Range(rows.rows[r][2].lines)

\* ---------------------------------------------------------------- claim C4
UiCalls == { ui[p][1] : p \in 1..Len(ui) }

\* C4: on a malformed response do_rubric_check shows an error and returns
\* without rendering a rubric result or reading rubric_check, having called
\* the model exactly once.
C4_MalformedResponseHandled ==
    (outcome /= "not run" /\ response.kind /= "valid") =>
        /\ outcome = "returned"
        /\ "error" \in UiCalls
        /\ "markdown" \notin UiCalls
        /\ n_calls = 1

====
